---- MODULE Spec2Model ----
(***************************************************************************)
(* pftp: the reply pump (proxyServer.start), the origin switch             *)
(* (proxyServer.switchOrigin with sendTLSCommand), command normalisation   *)
(* (commandLineCheck / sendToOrigin), SetDataHandler and EventChan.Send.   *)
(*                                                                         *)
(* A line is a sequence of one-byte strings.  Goroutines are processes     *)
(* with a program counter each; an unbuffered channel operation is one     *)
(* step taken by both sides together.                                      *)
(***************************************************************************)
EXTENDS Integers, Sequences, FiniteSets, TLC

(* ------------------------------ bounds --------------------------------- *)

\* lines the reply pump reads in one run (old and new origin together)
MaxReads == 2
\* data handlers created during one run
MaxHandlers == 2
\* capacity of the largest event channel
MaxEventBuf == 2
\* events sent during one run
MaxSends == 3
\* bytes in a raw client line given to sendToOrigin
MaxCmdLen == 4

(* ------------------------------ bytes ---------------------------------- *)

CR == "\r"
LF == "\n"
SP == " "

Letters ==
    {"A", "B", "H", "L", "O", "P", "R", "S", "T", "U", "X", "Y", "Z", "w", "x"}

\* (b >= 'a' && b <= 'z') || (b >= 'A' && b <= 'Z')
IsAlpha(c) == c \in Letters

(* ------------------------- strings package ----------------------------- *)

HasPrefix(s, p) == Len(s) >= Len(p) /\ SubSeq(s, 1, Len(p)) = p

HasSuffix(s, p) == Len(s) >= Len(p) /\ SubSeq(s, Len(s) - Len(p) + 1, Len(s)) = p

Contains(s, p) ==
    \E i \in 1..(Len(s) - Len(p) + 1) : SubSeq(s, i, i + Len(p) - 1) = p

Count(s, c) == Cardinality({i \in 1..Len(s) : s[i] = c})

\* strings.Replace(s, c, "", -1) for a one-byte c
RemoveAll(s, c) == SelectSeq(s, LAMBDA x : x # c)

RECURSIVE TrimLeft(_, _)
TrimLeft(s, cut) ==
    IF s # <<>> /\ Head(s) \in cut THEN TrimLeft(Tail(s), cut) ELSE s

RECURSIVE TrimRight(_, _)
TrimRight(s, cut) ==
    IF s # <<>> /\ s[Len(s)] \in cut
    THEN TrimRight(SubSeq(s, 1, Len(s) - 1), cut)
    ELSE s

Trim(s, cut) == TrimRight(TrimLeft(s, cut), cut)

\* strings.SplitN(s, sep, 2)[0] for a one-byte sep
RECURSIVE SplitFirst(_, _)
SplitFirst(s, sep) ==
    IF s = <<>> \/ Head(s) = sep THEN <<>>
    ELSE <<Head(s)>> \o SplitFirst(Tail(s), sep)

\* getCode(line)[0]
getCode(line) ==
    IF Len(line) >= 4 THEN SplitFirst(Trim(line, {CR, LF}), line[4]) ELSE line

(* ------------------------------ lines ---------------------------------- *)

C220 == <<"2", "2", "0">>

L220 == <<"2", "2", "0", " ", CR, LF>>
L220m == <<"2", "2", "0", "-", CR, LF>>
L211 == <<"2", "1", "1", " ", CR, LF>>
L211m == <<"2", "1", "1", "-", CR, LF>>
L227 == <<"2", "2", "7", " ", CR, LF>>
L200 == <<"2", "0", "0", " ", CR, LF>>
L200m == <<"2", "0", "0", "-", CR, LF>>
L234 == <<"2", "3", "4", " ", CR, LF>>
L421 == <<"4", "2", "1", " ", CR, LF>>
L500P == <<"5", "0", "0", " ", "P", "R", "O", "X", "Y", CR, LF>>

Proxy500 == <<"5", "0", "0", " ", "P", "R", "O", "X", "Y">>

\* lines an origin may send on the control connection; a 227 reply is of
\* interest only where the data channel is proxied
OriginLines(cfg) ==
    {L220, L220m, L211, L211m, L500P}
        \cup (IF cfg.DataChanProxy THEN {L227} ELSE {})

\* first lines a new origin may send to switchOrigin
WelcomeLines == {L220, L421}

\* what a new origin may answer one replayed command with: a reply of one
\* line, with "500 PROXY" before it from an origin that did not understand
\* the PROXY header, or a reply of two lines
TlsReplies == {<<L234>>, <<L421>>, <<L500P, L234>>, <<L200m, L200>>}

\* the line a read of connection o gives: the oldest line the new origin has
\* sent and nobody has read, or else a line it sends now
Incoming(o, pending, fresh) ==
    IF o = "o2" /\ pending # <<>> THEN {Head(pending)} ELSE fresh

Rest(o, pending) == IF o = "o2" /\ pending # <<>> THEN Tail(pending) ELSE pending

WelcomeMsg == <<"w">>

\* welcomeMsg: "220 " + conf.config.WelcomeMsg + "\r\n"
welcomeMsg == <<"2", "2", "0", " ">> \o WelcomeMsg \o <<CR, LF>>

(* --------------------------- command lines ----------------------------- *)

RECURSIVE StripLeading(_)
\* commandLineCheck, first loop: drop bytes until the line starts with a
\* letter; <<>> when no letter is found
StripLeading(line) ==
    IF line = <<>> THEN <<>>
    ELSE IF IsAlpha(Head(line)) THEN line
    ELSE StripLeading(Tail(line))

WellEndedBySuffix(line) == HasSuffix(line, <<CR, LF>>)

\* line 114, negated: the line ends with CRLF and has one CR and one LF
WellEnded(line) ==
    HasSuffix(line, <<CR, LF>>) /\ Count(line, CR) = 1 /\ Count(line, LF) = 1

\* commandLineCheck: [err, line]
commandLineCheck(line) ==
    LET l == StripLeading(line) IN
    IF l = <<>> THEN [err |-> "aborted : wrong command line", line |-> <<>>]
    ELSE IF ~WellEnded(l)
         THEN [err |-> "nil",
               line |-> RemoveAll(RemoveAll(l, LF), CR) \o <<CR, LF>>]
         ELSE [err |-> "nil", line |-> l]

\* getCommand(line)[0]: the first whitespace-separated token of the line
RECURSIVE FirstToken(_)
FirstToken(line) ==
    IF line = <<>> \/ Head(line) \in {SP, CR, LF} THEN <<>>
    ELSE <<Head(line)>> \o FirstToken(Tail(line))

getCommand(line) == FirstToken(TrimLeft(line, {SP, CR, LF}))

\* strings.ToUpper on the bytes in use
ToUpper(s) ==
    [i \in DOMAIN s |-> IF s[i] = "w" THEN "W" ELSE IF s[i] = "x" THEN "X" ELSE s[i]]

AUTH == <<"A", "U", "T", "H">>

AuthTLS == <<"A", "U", "T", "H", " ", "T", "L", "S", CR, LF>>
\* PBSZ 0 as a client that ends its lines with a bare LF sends it
Pbsz0 == <<"P", "B", "S", "Z", " ", "0", LF>>

\* the raw client lines the client handler may have recorded when it calls
\* switchOrigin: none, or AUTH and then PBSZ
TlsCommandLists == {<<>>, <<AuthTLS, Pbsz0>>}

\* bytes of a raw client line: a letter, another byte, CR and LF
CmdBytes == {"A", "#", CR, LF}

\* raw client lines given to sendToOrigin by the command pump
ClientLines == UNION {[1..n -> CmdBytes] : n \in 0..MaxCmdLen}

(* ------------------------------ state ---------------------------------- *)

VARIABLES
    config,          \* [ProxyProtocol, DataChanProxy]
    passThrough,     \* proxyServer.passThrough
    stop,            \* proxyServer.stop
    isSwitched,      \* proxyServer.isSwitched
    origin,          \* proxyServer.origin: "o1", "o2" or "nil"
    originReader,    \* the connection proxyServer.originReader reads
    connOpen,        \* which origin connections are open
    originTLS,       \* the origin connection was wrapped by tls.Client
    originPending,   \* lines the new origin has sent that nobody has read
    dataConnector,   \* proxyServer.dataConnector: 0 (nil) or a handler id
    handlers,        \* the data handlers created so far
    mutex,           \* owner of the per-connection mutex
    pumpPc,          \* position of the goroutine that runs start
    from,            \* start's from: the reader it was called with
    b,               \* the buffer start took from the read channel
    taken,           \* whether b was taken after the switch had begun
    lastError,       \* start's lastError
    rpc,             \* position of the reader goroutine of start
    buff,            \* reader: buff, while it is live
    raw,             \* reader: the origin lines buff was made from
    cpc,             \* position of the command pump goroutine
    sw,              \* switchOrigin's arguments and locals
    ret,             \* what the command pump's last call returned
    cmdLine,         \* sendToOrigin's line, while the call is live
    clientBuf,       \* bytes pending in clientWriter
    clientErr,       \* the error clientWriter holds, or "nil"
    clientOut,       \* what was written to the client socket
    handed,          \* the buffers the reader sent on the read channel
    nRead,           \* lines the reader goroutines have read so far
    switchBegun,     \* switchOrigin has set isSwitched and suspended
    stopsSent,       \* stop signals received by the pump
    dials,           \* new origins dialed by switchOrigin
    published,       \* the values sent on waitSwitching so far
    originWrites,    \* the command line on its way to the origin, and who
                     \* wrote it
    eventC,          \* the event channel: its buffer
    eventCap,        \* the event channel: its capacity
    receiver,        \* the event consumer: "busy", "waiting"
    sent,            \* events Send accepted
    received,        \* events the consumer received
    sendLog          \* outcome of the last Send

pumpVars == <<pumpPc, from, b, lastError, taken>>
readerVars == <<rpc, buff, raw>>
cmdVars == <<cpc, sw, ret, cmdLine>>
clientVars == <<clientBuf, clientErr, clientOut>>
flagVars == <<passThrough, stop, isSwitched>>
connVars == <<origin, originReader, connOpen, originTLS, originPending>>
dataVars == <<dataConnector, handlers>>
ghostVars == <<handed, nRead, switchBegun, stopsSent, dials, originWrites,
               published>>
eventVars == <<eventC, eventCap, receiver, sent, received, sendLog>>

vars == <<config, flagVars, connVars, dataVars, mutex, pumpVars, readerVars,
          cmdVars, clientVars, ghostVars, eventVars>>

DataModes == {"PORT", "EPRT", "PASV", "EPSV"}

NoWrite == [by |-> "none", line |-> <<>>]

NoSwitch == [addr |-> "", cmds |-> <<>>, idx |-> 0, res |-> <<>>,
             lastError |-> "nil", switchResult |-> FALSE, unsuspend |-> FALSE]

\* the state newProxyServer leaves (lines 72-89): passThrough true,
\* isSwitched false, stop false, bound to the default origin
InitProxy ==
    /\ passThrough = TRUE
    /\ stop = FALSE
    /\ isSwitched = FALSE
    /\ origin = "o1"
    /\ originReader = "o1"
    /\ connOpen = [o1 |-> TRUE, o2 |-> FALSE]
    /\ originTLS = FALSE
    /\ originPending = <<>>
    /\ mutex = "free"
    /\ pumpPc = "call"
    /\ from = "o1"
    /\ b = <<>>
    /\ taken = FALSE
    /\ lastError = "nil"
    /\ rpc = "none"
    /\ buff = <<>>
    /\ raw = <<>>
    /\ cpc = "idle"
    /\ sw = NoSwitch
    /\ ret = "none"
    /\ cmdLine = <<>>
    /\ clientBuf = <<>>
    /\ clientErr = "nil"
    /\ clientOut = <<>>
    /\ handed = <<>>
    /\ nRead = 0
    /\ switchBegun = FALSE
    /\ stopsSent = 0
    /\ dials = 0
    /\ published = <<>>
    /\ originWrites = NoWrite

InitEvents ==
    /\ eventC = <<>>
    /\ receiver = "busy"
    /\ sent = <<>>
    /\ received = <<>>
    /\ sendLog = "none"

(* --------------------------- connections ------------------------------- *)

CloseNothing(open, o) == open

\* proxyServer.Close, as connectionCloser(s, s.log) calls it: close s.origin
\* unless it is nil
Close(open, o) == IF o = "nil" THEN open ELSE [open EXCEPT ![o] = FALSE]

\* dataHandler.Close on the current handler, if any
KeepDataConnector(hs, dc) == hs

CloseDataConnector(hs, dc) ==
    IF dc = 0 THEN hs ELSE [hs EXCEPT ![dc].closed = TRUE]

(* ---------------------- start: the writer half ------------------------- *)

\* the guard of start: a stopped or suspended proxy returns at once
StartReturnsAtOnce == stop \/ ~passThrough

\* responseProxy -> start(s.originReader, s.clientWriter), lines 363-375
StartCall ==
    /\ pumpPc = "call"
    /\ IF StartReturnsAtOnce
       THEN /\ pumpPc' = "waitsw"
            /\ UNCHANGED <<from, lastError, readerVars>>
       ELSE /\ pumpPc' = "select"
            /\ from' = originReader
            /\ lastError' = "nil"
            /\ rpc' = "top"
            /\ buff' = <<>>
            /\ raw' = <<>>
    /\ UNCHANGED <<config, flagVars, connVars, dataVars, mutex, b, taken,
                   cmdVars, clientVars, ghostVars, eventVars>>

\* case b := <-read, with the reader's read <- buff (lines 472, 483)
PumpRecvRead ==
    /\ pumpPc = "select"
    /\ rpc = "handoff"
    /\ b' = buff
    /\ taken' = switchBegun
    /\ pumpPc' = "lock"
    /\ rpc' = "waitsend"
    /\ UNCHANGED <<config, flagVars, connVars, dataVars, mutex, from, lastError,
                   buff, raw, cmdVars, clientVars, ghostVars, eventVars>>

\* s.mutex.Lock(), line 484
PumpLock ==
    /\ pumpPc = "lock"
    /\ mutex = "free"
    /\ mutex' = "pump"
    /\ pumpPc' = "write"
    /\ UNCHANGED <<config, flagVars, connVars, dataVars, from, b, taken, lastError,
                   readerVars, cmdVars, clientVars, ghostVars, eventVars>>

\* to.WriteString(b), lines 485-489: a writer that holds an error takes
\* nothing; the error is logged and the loop goes on
WriteStringTwice(pending, err, s) ==
    IF err = "nil" THEN pending \o s \o s ELSE pending

WriteString(pending, err, s) == IF err = "nil" THEN pending \o s ELSE pending

PumpWrite ==
    /\ pumpPc = "write"
    /\ clientBuf' = WriteString(clientBuf, clientErr, b)
    /\ pumpPc' = "flush"
    /\ UNCHANGED <<config, flagVars, connVars, dataVars, mutex, from, b, taken,
                   lastError, readerVars, cmdVars, clientErr, clientOut,
                   ghostVars, eventVars>>

\* what reaches the client socket, with the origin it was read from,
\* whether the writer took it after the switch had begun, and passThrough
\* at the time of the write
Written(s) == [buf |-> s, src |-> from, sw |-> taken, pt |-> passThrough]

\* to.Flush(), lines 491-495: the pending bytes go to the socket, or the
\* socket fails and the writer keeps the error; either way the loop goes on
PumpFlush ==
    /\ pumpPc = "flush"
    /\ IF clientErr # "nil" \/ clientBuf = <<>>
       THEN UNCHANGED clientVars
       ELSE \E outcome \in {"nil", "use of closed", "broken pipe"} :
              IF outcome = "nil"
              THEN /\ clientOut' = Append(clientOut, Written(clientBuf))
                   /\ clientBuf' = <<>>
                   /\ UNCHANGED clientErr
              ELSE /\ clientErr' = outcome
                   /\ UNCHANGED <<clientBuf, clientOut>>
    /\ pumpPc' = "unlock"
    /\ UNCHANGED <<config, flagVars, connVars, dataVars, mutex, from, b, taken,
                   lastError, readerVars, cmdVars, ghostVars, eventVars>>

\* s.mutex.Unlock(), line 496
PumpUnlock ==
    /\ pumpPc = "unlock"
    /\ mutex' = "free"
    /\ pumpPc' = "ack"
    /\ UNCHANGED <<config, flagVars, connVars, dataVars, from, b, taken, lastError,
                   readerVars, cmdVars, clientVars, ghostVars, eventVars>>

\* send <- struct{}{}, with the reader's <-send (lines 473, 498)
PumpAck ==
    /\ pumpPc = "ack"
    /\ rpc = "waitsend"
    /\ pumpPc' = "select"
    /\ rpc' = "top"
    /\ b' = <<>>
    /\ taken' = FALSE
    /\ buff' = <<>>
    /\ raw' = <<>>
    /\ UNCHANGED <<config, flagVars, connVars, dataVars, mutex, from,
                   lastError, cmdVars, clientVars, ghostVars, eventVars>>

\* case err := <-errchan, with the reader's safeSetChanel (lines 499-500)
PumpRecvErr ==
    /\ pumpPc = "select"
    /\ rpc \in {"errsend", "errsendm"}
    /\ lastError' = "read error"
    /\ pumpPc' = "errclose"
    /\ rpc' = "done"
    /\ UNCHANGED <<config, flagVars, connVars, dataVars, mutex, from, b, taken, buff,
                   raw, cmdVars, clientVars, ghostVars, eventVars>>

\* connectionCloser(s, s.log); break loop (lines 501-503)
PumpErrClose ==
    /\ pumpPc = "errclose"
    /\ connOpen' = Close(connOpen, origin)
    /\ pumpPc' = "waitdone"
    /\ UNCHANGED <<config, flagVars, origin, originReader, originTLS, dataVars,
                   mutex, from, b, taken, lastError, readerVars, cmdVars,
                   clientVars, ghostVars, eventVars,
                   originPending>>

\* case <-s.stopChan, with switchOrigin's s.stopChan <- (lines 305, 504-505)
PumpRecvStop ==
    /\ pumpPc = "select"
    /\ cpc = "sw_stop"
    /\ stop' = TRUE
    /\ pumpPc' = "stopclose"
    /\ cpc' = "sw_stopdone"
    /\ stopsSent' = stopsSent + 1
    /\ UNCHANGED <<config, passThrough, isSwitched, connVars, dataVars, mutex,
                   from, b, taken, lastError, readerVars, sw, ret, clientVars, handed,
                   nRead, switchBegun, dials, originWrites, eventVars,
                   published, cmdLine>>

\* connectionCloser(s, s.log), line 508
PumpStopClose ==
    /\ pumpPc = "stopclose"
    /\ connOpen' = Close(connOpen, origin)
    /\ pumpPc' = "stopack"
    /\ UNCHANGED <<config, flagVars, origin, originReader, originTLS, dataVars,
                   mutex, from, b, taken, lastError, readerVars, cmdVars,
                   clientVars, ghostVars, eventVars,
                   originPending>>

\* s.stopChanDone <- struct{}{}, with switchOrigin's <-s.stopChanDone
\* (lines 306, 510-511)
PumpStopAck ==
    /\ pumpPc = "stopack"
    /\ cpc = "sw_stopdone"
    /\ pumpPc' = "waitdone"
    /\ cpc' = "sw_dial"
    /\ UNCHANGED <<config, flagVars, connVars, dataVars, mutex, from, b, taken,
                   lastError, readerVars, sw, ret, clientVars, ghostVars,
                   eventVars,
                   cmdLine>>

\* <-done, with the reader's done <- struct{}{} (lines 456, 477, 514)
PumpWaitDone ==
    /\ pumpPc = "waitdone"
    /\ rpc = "done"
    /\ pumpPc' = "closedata"
    /\ rpc' = "exit"
    /\ UNCHANGED <<config, flagVars, connVars, dataVars, mutex, from, b, taken,
                   lastError, buff, raw, cmdVars, clientVars, ghostVars,
                   eventVars>>

\* lines 516-520: close the data handler and return lastError; the caller
\* then waits for the switch result when start returned nil and gives up
\* when it returned an error
PumpReturn ==
    /\ pumpPc = "closedata"
    /\ handlers' = CloseDataConnector(handlers, dataConnector)
    /\ pumpPc' = IF lastError = "nil" THEN "waitsw" ELSE "over"
    /\ UNCHANGED <<config, flagVars, connVars, dataConnector, mutex, from, b, taken,
                   lastError, readerVars, cmdVars, clientVars, ghostVars,
                   eventVars>>

\* the caller's <-s.waitSwitching, with switchOrigin's deferred
\* s.waitSwitching <- switchResult (line 315): a successful switch restarts
\* the pump, a failed one ends the connection
HostRecvSwitch ==
    /\ pumpPc = "waitsw"
    /\ cpc = "sw_publish"
    /\ pumpPc' = IF sw.switchResult THEN "call" ELSE "over"
    /\ cpc' = "sw_unsuspend"
    /\ published' = Append(published, sw.switchResult)
    /\ UNCHANGED <<config, flagVars, connVars, dataVars, mutex, from, b, taken,
                   lastError, readerVars, sw, ret, cmdLine, clientVars, handed,
                   nRead, switchBegun, stopsSent, dials, originWrites,
                   eventVars>>

(* ---------------------- start: the reader half ------------------------- *)

\* lines 396-399: a 220 reply on a connection that is not switched is
\* replaced by the welcome message
Welcome(line, switched) ==
    IF getCode(line) = C220 /\ ~switched THEN welcomeMsg ELSE line

NeverDropProxy500(cfg, bf) == FALSE

\* lines 406-408: "500 PROXY" is ignored when the proxy protocol is on
DropProxy500(cfg, bf) == cfg.ProxyProtocol /\ Contains(bf, Proxy500)

PortOk ==
    <<"2", "0", "0", " ", "P", "O", "R", "T", " ", "command successful", CR, LF>>

\* lines 412-422
IsDataCommandResponse(bf) ==
    \/ HasPrefix(bf, <<"2", "2", "7", " ">>)
    \/ HasPrefix(bf, <<"2", "2", "9", " ">>)
    \/ HasPrefix(bf, SubSeq(PortOk, 1, 10))

\* lines 428-443: the reply the client gets for its data command; the
\* listener's address and the masquerade IP are one token each
DataResponse(mode, bf) ==
    CASE mode \in {"PORT", "EPRT"} ->
           <<"2", "0", "0", " ", mode, " command successful", CR, LF>>
      [] mode = "PASV" ->
           <<"2", "2", "7", " ", "Entering Passive Mode", "MasqueradeIP",
             "listenPort", CR, LF>>
      [] mode = "EPSV" ->
           <<"2", "2", "9", " ", "Entering Extended Passive Mode",
             "listenPort", CR, LF>>
      [] OTHER -> bf

\* line 448
IsMultiLineOpener(bf) == Len(bf) >= 4 /\ bf[4] = "-"

\* line 464
IsMultiLineEnd(res, params) == getCode(res) = params /\ res[4] = " "

\* from.ReadString('\n') at line 378: a line of the origin, or an error when
\* the origin hangs up, the deadline passes or the connection was closed
ReaderRead ==
    /\ rpc = "top"
    /\ \/ /\ connOpen[from]
          /\ nRead < MaxReads
          /\ \E line \in Incoming(from, originPending, OriginLines(config)) :
               /\ raw' = <<line>>
               /\ buff' = line
          /\ originPending' = Rest(from, originPending)
          /\ nRead' = nRead + 1
          /\ rpc' = "proc"
       \/ /\ rpc' = "readerr"
          /\ UNCHANGED <<buff, raw, nRead, originPending>>
    /\ UNCHANGED <<config, flagVars, origin, originReader, connOpen, originTLS,
                   dataVars, mutex, pumpVars, cmdVars, clientVars, handed,
                   switchBegun, stopsSent, dials, originWrites, published,
                   eventVars>>

\* lines 379-383: the error goes to errchan unless the pump was stopped
ReaderReadErr ==
    /\ rpc = "readerr"
    /\ rpc' = IF ~stop THEN "errsend" ELSE "done"
    /\ UNCHANGED <<config, flagVars, connVars, dataVars, mutex, pumpVars, buff,
                   raw, cmdVars, clientVars, ghostVars, eventVars>>

\* lines 394-450, from the line read to the test for a multi-line opener
ReaderProc ==
    /\ rpc = "proc"
    /\ LET welcomed == Welcome(buff, isSwitched)
           data == /\ config.DataChanProxy
                   /\ isSwitched
                   /\ IsDataCommandResponse(welcomed)
       IN
       IF DropProxy500(config, welcomed)
       THEN /\ rpc' = "top"
            /\ buff' = <<>>
            /\ raw' = <<>>
            /\ UNCHANGED <<handlers, pumpPc, cpc>>
       ELSE IF data /\ dataConnector = 0
       THEN \* s.dataConnector is nil: the panic ends the process
            /\ rpc' = "panic"
            /\ pumpPc' = "panic"
            /\ cpc' = "panic"
            /\ buff' = <<>>
            /\ raw' = <<>>
            /\ UNCHANGED handlers
       ELSE IF data
       THEN \* go s.dataConnector.StartDataTransfer(), then the rewrite
            /\ handlers' = [handlers EXCEPT ![dataConnector].started = TRUE]
            /\ buff' = DataResponse(handlers[dataConnector].mode, welcomed)
            /\ rpc' = "check"
            /\ UNCHANGED <<raw, pumpPc, cpc>>
       ELSE /\ buff' = welcomed
            /\ rpc' = IF IsMultiLineOpener(welcomed) THEN "multi" ELSE "check"
            /\ UNCHANGED <<handlers, raw, pumpPc, cpc>>
    /\ UNCHANGED <<config, flagVars, connVars, dataConnector, mutex, from, b,
                   lastError, taken, sw, ret, clientVars, ghostVars, eventVars,
                   cmdLine>>

\* lines 452-468: the next line of a multi-line reply; params is the code of
\* the opener, which no rewrite has touched (a rewritten buffer has a space
\* as its fourth byte)
ReaderMulti ==
    /\ rpc = "multi"
    /\ \/ /\ connOpen[from]
          /\ nRead < MaxReads
          /\ \E res \in Incoming(from, originPending, OriginLines(config)) :
               /\ raw' = Append(raw, res)
               /\ buff' = buff \o res
               /\ rpc' = IF IsMultiLineEnd(res, getCode(raw[1]))
                         THEN "check" ELSE "multi"
          /\ originPending' = Rest(from, originPending)
          /\ nRead' = nRead + 1
       \/ \* safeSetChanel(errchan, err); done <- struct{}{}; return
          /\ rpc' = "errsendm"
          /\ buff' = <<>>
          /\ raw' = <<>>
          /\ UNCHANGED <<nRead, originPending>>
    /\ UNCHANGED <<config, flagVars, origin, originReader, connOpen, originTLS,
                   dataVars, mutex, pumpVars, cmdVars, clientVars, handed,
                   switchBegun, stopsSent, dials, originWrites, published,
                   eventVars>>

\* line 471: the buffer goes to the writer only while passThrough is true
Forward(pt) == pt

ReaderCheck ==
    /\ rpc = "check"
    /\ IF Forward(passThrough)
       THEN /\ rpc' = "handoff"
            /\ handed' = Append(handed, buff)
            /\ UNCHANGED <<buff, raw>>
       ELSE /\ rpc' = "top"
            /\ buff' = <<>>
            /\ raw' = <<>>
            /\ UNCHANGED handed
    /\ UNCHANGED <<config, flagVars, connVars, dataVars, mutex, pumpVars,
                   cmdVars, clientVars, nRead, switchBegun, stopsSent, dials,
                   originWrites, eventVars,
                   published>>

(* --------------------------- switchOrigin ------------------------------ *)

\* what webapi.GetDomainFromWebAPI gives the USER middleware: an error, or
\* the origin of the user
Resolutions == {[err |-> TRUE, res |-> ""],
                [err |-> FALSE, res |-> "10.0.0.7:21"]}

\* the USER middleware of main.go, lines 43-53: c.RemoteAddr after it ran
User(r) == IF r.err THEN "" ELSE r.res

\* the origin addresses the client handler calls switchOrigin with
OriginAddrs == {User(r) : r \in Resolutions}

SwitchRefusalNoLatch(addr, switched) ==
    IF Len(addr) = 0 THEN "user id not found" ELSE "nil"

SwitchRefusalNoEmpty(addr, switched) ==
    IF switched THEN "origin already switched" ELSE "nil"

\* lines 283-297: the two refusals, then isSwitched = true
SwitchRefusal(addr, switched) ==
    IF Len(addr) = 0 THEN "user id not found"
    ELSE IF switched THEN "origin already switched"
    ELSE "nil"

SwitchOriginCall ==
    /\ cpc = "idle"
    /\ \E addr \in OriginAddrs, cmds \in TlsCommandLists :
         LET refusal == SwitchRefusal(addr, isSwitched) IN
         IF refusal # "nil"
         THEN /\ ret' = refusal
              /\ cpc' = "returned"
              /\ sw' = [NoSwitch EXCEPT !.addr = addr]
              /\ UNCHANGED isSwitched
         ELSE /\ isSwitched' = TRUE
              /\ sw' = [NoSwitch EXCEPT !.addr = addr, !.cmds = cmds]
              /\ cpc' = "sw_suspend"
              /\ UNCHANGED ret
    /\ UNCHANGED <<config, passThrough, stop, connVars, dataVars, mutex,
                   pumpVars, readerVars, clientVars, ghostVars, eventVars,
                   cmdLine>>

\* suspend, lines 154-157
suspend(pt) == FALSE

unsuspendSkipped(pt) == pt

\* unsuspend, lines 159-162
unsuspend(pt) == TRUE

\* lines 299-302: suspend, with the deferred unsuspend
SwSuspend ==
    /\ cpc = "sw_suspend"
    /\ IF passThrough
       THEN /\ passThrough' = suspend(passThrough)
            /\ sw' = [sw EXCEPT !.unsuspend = TRUE]
       ELSE UNCHANGED <<passThrough, sw>>
    /\ switchBegun' = TRUE
    /\ cpc' = "sw_stop"
    /\ UNCHANGED <<config, stop, isSwitched, connVars, dataVars, mutex,
                   pumpVars, readerVars, ret, clientVars, handed, nRead,
                   stopsSent, dials, originWrites, eventVars,
                   published, cmdLine>>

\* every return after line 311 runs the deferred function first
SwReturn(err) ==
    /\ ret' = err
    /\ cpc' = "sw_defer"

\* lines 319-326: dial the new origin and rebind reader and writer to it
SwDial ==
    /\ cpc = "sw_dial"
    /\ dials' = dials + 1
    /\ \/ /\ origin' = "o2"
          /\ originReader' = "o2"
          /\ connOpen' = [connOpen EXCEPT !.o2 = TRUE]
          /\ cpc' = "sw_header"
          /\ UNCHANGED ret
       \/ /\ origin' = "nil"
          /\ SwReturn("dial error")
          /\ UNCHANGED <<originReader, connOpen>>
    /\ UNCHANGED <<config, flagVars, originTLS, dataVars, mutex, pumpVars,
                   readerVars, sw, clientVars, handed, nRead, switchBegun,
                   stopsSent, originWrites, eventVars,
                   originPending, published, cmdLine>>

\* lines 329-334: the PROXY protocol header, when configured
SwProxyHeader ==
    /\ cpc = "sw_header"
    /\ \/ /\ cpc' = "sw_welcome"
          /\ UNCHANGED ret
       \/ /\ config.ProxyProtocol
          /\ SwReturn("proxy header error")
    /\ UNCHANGED <<config, flagVars, connVars, dataVars, mutex, pumpVars,
                   readerVars, sw, clientVars, ghostVars, eventVars,
                   cmdLine>>

\* lines 337-350: one line is read from the new origin, whatever it says
SwWelcome ==
    /\ cpc = "sw_welcome"
    /\ \/ /\ \E res \in WelcomeLines : sw' = [sw EXCEPT !.res = res, !.idx = 1]
          /\ cpc' = "sw_tls"
          /\ UNCHANGED ret
       \/ /\ SwReturn("cannot connect to new origin server")
          /\ UNCHANGED sw
    /\ UNCHANGED <<config, flagVars, connVars, dataVars, mutex, pumpVars,
                   readerVars, clientVars, ghostVars, eventVars,
                   cmdLine>>

(* -------------------------- sendTLSCommand ----------------------------- *)

SwitchResultAlways(err) == TRUE

\* lines 353-358: switchResult = true is reached only when sendTLSCommand
\* returned nil
SwitchResult(err) == err = "nil"

\* lines 225-232, and lines 280, 353-360 once the commands are through:
\* a command is written to the origin as it was recorded, and the origin
\* answers it
SwTlsWrite ==
    /\ cpc = "sw_tls"
    /\ IF sw.idx > Len(sw.cmds)
       THEN /\ sw' = [sw EXCEPT !.switchResult = SwitchResult(sw.lastError)]
            /\ SwReturn(sw.lastError)
            /\ UNCHANGED <<originWrites, originPending>>
       ELSE \/ /\ originWrites' = [by |-> "sendTLSCommand",
                                   line |-> sw.cmds[sw.idx]]
               /\ \E reply \in TlsReplies :
                    originPending' = originPending \o reply
               /\ cpc' = "sw_tlsread"
               /\ UNCHANGED <<sw, ret>>
            \/ /\ SwReturn("failed to send AUTH command to origin")
               /\ UNCHANGED <<sw, originWrites, originPending>>
    /\ UNCHANGED <<config, flagVars, origin, originReader, connOpen, originTLS,
                   dataVars, mutex, pumpVars, readerVars, cmdLine, clientVars,
                   handed, nRead, switchBegun, stopsSent, dials, published,
                   eventVars>>

IsAuth(cmd) == ToUpper(getCommand(cmd)) = AUTH

NoTls == "origin server has not support TLS connection"

\* lines 234-277: the next line of the origin is read for the command just
\* written; the loop goes on only after a skipped "500 PROXY"
SwTlsRead ==
    /\ cpc = "sw_tlsread"
    /\ \/ /\ originPending # <<>>
          /\ LET str == Head(originPending) IN
               IF IsAuth(sw.cmds[sw.idx]) /\ getCode(str) # <<"2", "3", "4">>
               THEN IF DropProxy500(config, str)
                    THEN UNCHANGED <<sw, cpc, originTLS, originWrites>>
                    ELSE /\ sw' = [sw EXCEPT !.lastError = NoTls,
                                             !.idx = sw.idx + 1]
                         /\ cpc' = "sw_tls"
                         /\ originWrites' = NoWrite
                         /\ UNCHANGED originTLS
               ELSE /\ originTLS' = (originTLS \/ IsAuth(sw.cmds[sw.idx]))
                    /\ sw' = [sw EXCEPT !.idx = sw.idx + 1]
                    /\ cpc' = "sw_tls"
                    /\ originWrites' = NoWrite
          /\ originPending' = Tail(originPending)
          /\ UNCHANGED ret
       \/ /\ SwReturn("failed to make TLS connection")
          /\ originWrites' = NoWrite
          /\ UNCHANGED <<sw, originTLS, originPending>>
    /\ UNCHANGED <<config, flagVars, origin, originReader, connOpen, dataVars,
                   mutex, pumpVars, readerVars, cmdLine, clientVars, handed,
                   nRead, switchBegun, stopsSent, dials, published, eventVars>>

\* lines 311-313: the deferred function resets stop, then publishes the
\* result (HostRecvSwitch is the other side of that send)
SwDefer ==
    /\ cpc = "sw_defer"
    /\ stop' = FALSE
    /\ cpc' = "sw_publish"
    /\ UNCHANGED <<config, passThrough, isSwitched, connVars, dataVars, mutex,
                   pumpVars, readerVars, sw, ret, clientVars, ghostVars,
                   eventVars,
                   cmdLine>>

\* line 301: the deferred unsuspend runs last
SwUnsuspend ==
    /\ cpc = "sw_unsuspend"
    /\ passThrough' = IF sw.unsuspend THEN unsuspend(passThrough)
                       ELSE passThrough
    /\ cpc' = "returned"
    /\ sw' = [NoSwitch EXCEPT !.addr = sw.addr]
    /\ UNCHANGED <<config, stop, isSwitched, connVars, dataVars, mutex,
                   pumpVars, readerVars, ret, clientVars, ghostVars,
                   eventVars,
                   cmdLine>>

(* --------------------------- sendToOrigin ------------------------------ *)

\* lines 128-148: the line is checked and fixed, then written and flushed
SendToOrigin ==
    /\ cpc = "idle"
    /\ \E line \in ClientLines :
         LET checked == commandLineCheck(line) IN
           /\ cmdLine' = <<line>>
           /\ IF checked.err # "nil"
              THEN /\ ret' = checked.err
                   /\ UNCHANGED originWrites
              ELSE \/ /\ connOpen[originReader]
                      /\ originWrites' = [by |-> "sendToOrigin",
                                          line |-> checked.line]
                      /\ ret' = "nil"
                   \/ /\ ret' = "write error"
                      /\ UNCHANGED originWrites
    /\ cpc' = "returned"
    /\ UNCHANGED <<config, flagVars, connVars, dataVars, mutex, pumpVars,
                   readerVars, sw, clientVars, handed, nRead, switchBegun,
                   stopsSent, dials, published, eventVars>>

\* the command pump takes the result of its call and goes on
CallReturned ==
    /\ cpc = "returned"
    /\ cpc' = "idle"
    /\ ret' = "none"
    /\ sw' = NoSwitch
    /\ cmdLine' = <<>>
    /\ UNCHANGED <<config, flagVars, connVars, dataVars, mutex, pumpVars,
                   readerVars, clientVars, ghostVars, eventVars>>

(* -------------------------- SetDataHandler ----------------------------- *)

NewHandler(mode) ==
    [mode |-> mode, inUse |-> FALSE, closed |-> FALSE, started |-> FALSE]

\* the handler SetDataHandler was called with: the last one created
Handler == Len(handlers)

\* SetDataHandler(handler), line 181: with a fresh handler for the client's
\* data command
SetDataHandlerCall ==
    /\ cpc = "idle"
    /\ config.DataChanProxy
    /\ Len(handlers) < MaxHandlers
    /\ \E mode \in DataModes : handlers' = Append(handlers, NewHandler(mode))
    /\ cpc' = IF dataConnector # 0 THEN "sdh_wait" ELSE "sdh_install"
    /\ UNCHANGED <<config, flagVars, connVars, dataConnector, mutex, pumpVars,
                   readerVars, sw, ret, clientVars, ghostVars, eventVars,
                   cmdLine>>

NoWaitForPrevious(hs, dc) == TRUE

\* lines 183-185: the loop is left when the previous handler is not in use
PreviousDone(hs, dc) == ~hs[dc].inUse

SdhWait ==
    /\ cpc = "sdh_wait"
    /\ PreviousDone(handlers, dataConnector)
    /\ cpc' = "sdh_close"
    /\ UNCHANGED <<config, flagVars, connVars, dataVars, mutex, pumpVars,
                   readerVars, sw, ret, clientVars, ghostVars, eventVars,
                   cmdLine>>

\* line 188
SdhClose ==
    /\ cpc = "sdh_close"
    /\ handlers' = CloseDataConnector(handlers, dataConnector)
    /\ cpc' = "sdh_install"
    /\ UNCHANGED <<config, flagVars, connVars, dataConnector, mutex, pumpVars,
                   readerVars, sw, ret, clientVars, ghostVars, eventVars,
                   cmdLine>>

\* lines 191-192
SdhInstall ==
    /\ cpc = "sdh_install"
    /\ dataConnector' = Handler
    /\ handlers' = [handlers EXCEPT ![Handler].inUse = TRUE]
    /\ cpc' = "idle"
    /\ UNCHANGED <<config, flagVars, connVars, mutex, pumpVars, readerVars, sw,
                   ret, clientVars, ghostVars, eventVars,
                   cmdLine>>

\* the end of a data transfer: the handler reports that it is not in use
DataTransferEnd ==
    /\ \E h \in 1..Len(handlers) :
         /\ handlers[h].inUse
         /\ handlers' = [handlers EXCEPT ![h].inUse = FALSE]
    /\ UNCHANGED <<config, flagVars, connVars, dataConnector, mutex, pumpVars,
                   readerVars, cmdVars, clientVars, ghostVars, eventVars>>

(* ------------------- replies of the client handler --------------------- *)

\* a reply the client handler writes itself, under the shared mutex
HandlerReplyLock ==
    /\ cpc = "idle"
    /\ mutex = "free"
    /\ mutex' = "handler"
    /\ cpc' = "reply"
    /\ UNCHANGED <<config, flagVars, connVars, dataVars, pumpVars, readerVars,
                   sw, ret, clientVars, ghostVars, eventVars,
                   cmdLine>>

HandlerReplyUnlock ==
    /\ cpc = "reply"
    /\ mutex' = "free"
    /\ cpc' = "idle"
    /\ UNCHANGED <<config, flagVars, connVars, dataVars, pumpVars, readerVars,
                   sw, ret, clientVars, ghostVars, eventVars,
                   cmdLine>>

(* ------------------------------ events --------------------------------- *)

EventTypes == {"client-command", "error"}
Payloads == {"1.1.1.1", "2.2.2.2"}
Events == [name : EventTypes, payload : Payloads]

proxyVars == <<config, flagVars, connVars, dataVars, mutex, pumpVars,
               readerVars, cmdVars, clientVars, ghostVars>>

SendReadyBufferOnly(q, cap, rcv) == Len(q) < cap

\* the select of Send, events.go lines 63-68: the send case is ready when
\* the buffer has room or a receiver is blocked on the channel
SendReady(q, cap, rcv) == Len(q) < cap \/ rcv = "waiting"

Send ==
    /\ Len(sent) < MaxSends
    /\ \E event \in Events :
         IF SendReady(eventC, eventCap, receiver)
         THEN /\ sent' = Append(sent, event)
              /\ sendLog' = "nil"
              /\ IF receiver = "waiting"
                 THEN /\ received' = Append(received, event)
                      /\ receiver' = "busy"
                      /\ UNCHANGED eventC
                 ELSE /\ eventC' = Append(eventC, event)
                      /\ UNCHANGED <<received, receiver>>
         ELSE /\ sendLog' = "no receivers"
              /\ UNCHANGED <<eventC, receiver, sent, received>>
    /\ UNCHANGED <<proxyVars, eventCap>>

\* the consumer's ev := <-eventC (main.go line 30)
Receive ==
    /\ receiver = "busy"
    /\ IF eventC # <<>>
       THEN /\ received' = Append(received, Head(eventC))
            /\ eventC' = Tail(eventC)
            /\ UNCHANGED receiver
       ELSE /\ receiver' = "waiting"
            /\ UNCHANGED <<eventC, received>>
    /\ UNCHANGED <<proxyVars, eventCap, sent, sendLog>>

(* -------------------------- specifications ----------------------------- *)

\* The control channel of one client connection, from newProxyServer on.
\* The data channel proxy is off here: SpecDataHandler is the same pump with
\* it on and with the data handlers the client handler installs.
Init ==
    /\ InitProxy
    /\ InitEvents
    /\ eventCap = 0
    /\ config \in [ProxyProtocol : BOOLEAN, DataChanProxy : {FALSE}]
    /\ dataConnector = 0
    /\ handlers = <<>>

Next ==
    \/ StartCall
    \/ PumpRecvRead
    \/ PumpLock
    \/ PumpWrite
    \/ PumpFlush
    \/ PumpUnlock
    \/ PumpAck
    \/ PumpRecvErr
    \/ PumpErrClose
    \/ PumpRecvStop
    \/ PumpStopClose
    \/ PumpStopAck
    \/ PumpWaitDone
    \/ PumpReturn
    \/ HostRecvSwitch
    \/ ReaderRead
    \/ ReaderReadErr
    \/ ReaderProc
    \/ ReaderMulti
    \/ ReaderCheck
    \/ SwitchOriginCall
    \/ SwSuspend
    \/ SwDial
    \/ SwProxyHeader
    \/ SwWelcome
    \/ SwTlsWrite
    \/ SwTlsRead
    \/ SwDefer
    \/ SwUnsuspend
    \/ CallReturned
    \/ HandlerReplyLock
    \/ HandlerReplyUnlock

Spec == Init /\ [][Next]_vars

\* the event channel on its own: NewEventChan(bufSize), then Send and the
\* consumer
InitEventChan ==
    /\ InitProxy
    /\ InitEvents
    /\ eventCap \in 0..MaxEventBuf
    /\ config = [ProxyProtocol |-> FALSE, DataChanProxy |-> FALSE]
    /\ dataConnector = 0
    /\ handlers = <<>>

NextEventChan == Send \/ Receive

SpecEventChan == InitEventChan /\ [][NextEventChan]_vars

\* the consumer is a loop around the receive (main.go lines 29-31): it is
\* never starved
SpecEventChanFair == SpecEventChan /\ WF_vars(Receive)

(* The reply pump up to its return, with the data channel proxied: the    *)
(* pump and its reader after the welcome message went to the client,       *)
(* SetDataHandler, and switchOrigin up to the stop handshake.              *)

InitPumpEnd ==
    /\ InitEvents
    /\ eventCap = 0
    /\ config = [ProxyProtocol |-> FALSE, DataChanProxy |-> TRUE]
    /\ passThrough = TRUE
    /\ stop = FALSE
    /\ isSwitched = FALSE
    /\ origin = "o1"
    /\ originReader = "o1"
    /\ connOpen = [o1 |-> TRUE, o2 |-> FALSE]
    /\ originTLS = FALSE
    /\ originPending = <<>>
    /\ dataConnector = 0
    /\ handlers = <<>>
    /\ mutex = "free"
    /\ pumpPc = "select"
    /\ from = "o1"
    /\ b = <<>>
    /\ taken = FALSE
    /\ lastError = "nil"
    /\ rpc = "top"
    /\ buff = <<>>
    /\ raw = <<>>
    /\ cpc = "idle"
    /\ sw = NoSwitch
    /\ ret = "none"
    /\ cmdLine = <<>>
    /\ clientBuf = <<>>
    /\ clientErr = "nil"
    /\ clientOut = <<[buf |-> welcomeMsg, src |-> "o1", sw |-> FALSE,
                      pt |-> TRUE]>>
    /\ handed = <<welcomeMsg>>
    /\ nRead = 1
    /\ switchBegun = FALSE
    /\ stopsSent = 0
    /\ dials = 0
    /\ published = <<>>
    /\ originWrites = NoWrite

\* switchOrigin is called with an origin address and nothing to replay
SwitchOriginBegins ==
    /\ SwitchOriginCall
    /\ sw'.addr # ""
    /\ sw'.cmds = <<>>

NextPumpEnd ==
    \/ PumpRecvRead
    \/ PumpLock
    \/ PumpWrite
    \/ PumpFlush
    \/ PumpUnlock
    \/ PumpAck
    \/ PumpRecvErr
    \/ PumpErrClose
    \/ PumpRecvStop
    \/ PumpStopClose
    \/ PumpStopAck
    \/ PumpWaitDone
    \/ PumpReturn
    \/ ReaderRead
    \/ ReaderReadErr
    \/ ReaderProc
    \/ ReaderMulti
    \/ ReaderCheck
    \/ SetDataHandlerCall
    \/ SdhWait
    \/ SdhClose
    \/ SdhInstall
    \/ DataTransferEnd
    \/ SwitchOriginBegins
    \/ SwSuspend

SpecPumpEnd == InitPumpEnd /\ [][NextPumpEnd]_vars

(* sendToOrigin: the command pump gives raw client lines to a proxy that    *)
(* has just been built.                                                    *)

InitSendToOrigin ==
    /\ InitProxy
    /\ InitEvents
    /\ eventCap = 0
    /\ config = [ProxyProtocol |-> FALSE, DataChanProxy |-> FALSE]
    /\ dataConnector = 0
    /\ handlers = <<>>

NextSendToOrigin == SendToOrigin \/ CallReturned

SpecSendToOrigin == InitSendToOrigin /\ [][NextSendToOrigin]_vars

(* ------------------------------ claims --------------------------------- *)

\* The data side of a connection whose origin was switched: the client got
\* the welcome message for the 220 of the default origin, and this is the
\* state a successful switchOrigin then leaves once the host loop has taken
\* its result, with the data channel proxy on.
InitDataHandler ==
    /\ InitEvents
    /\ eventCap = 0
    /\ config \in [ProxyProtocol : BOOLEAN, DataChanProxy : {TRUE}]
    /\ passThrough = TRUE
    /\ stop = FALSE
    /\ isSwitched = TRUE
    /\ origin = "o2"
    /\ originReader = "o2"
    /\ connOpen = [o1 |-> FALSE, o2 |-> TRUE]
    /\ originTLS = FALSE
    /\ originPending = <<>>
    /\ dataConnector = 0
    /\ handlers = <<>>
    /\ mutex = "free"
    /\ pumpPc = "call"
    /\ from = "o1"
    /\ b = <<>>
    /\ taken = FALSE
    /\ lastError = "nil"
    /\ rpc = "exit"
    /\ buff = <<>>
    /\ raw = <<>>
    /\ cpc = "idle"
    /\ sw = NoSwitch
    /\ ret = "none"
    /\ cmdLine = <<>>
    /\ clientBuf = <<>>
    /\ clientErr = "nil"
    /\ clientOut = <<[buf |-> welcomeMsg, src |-> "o1", sw |-> FALSE,
                      pt |-> TRUE]>>
    /\ handed = <<welcomeMsg>>
    /\ nRead = 1
    /\ switchBegun = TRUE
    /\ stopsSent = 1
    /\ dials = 1
    /\ published = <<TRUE>>
    /\ originWrites = NoWrite

NextDataHandler ==
    \/ StartCall
    \/ PumpRecvRead
    \/ PumpLock
    \/ PumpWrite
    \/ PumpFlush
    \/ PumpUnlock
    \/ PumpAck
    \/ PumpRecvErr
    \/ PumpErrClose
    \/ PumpWaitDone
    \/ PumpReturn
    \/ ReaderRead
    \/ ReaderReadErr
    \/ ReaderProc
    \/ ReaderMulti
    \/ ReaderCheck
    \/ SetDataHandlerCall
    \/ SdhWait
    \/ SdhClose
    \/ SdhInstall
    \/ DataTransferEnd

SpecDataHandler == InitDataHandler /\ [][NextDataHandler]_vars

(* ------------------------------ claims --------------------------------- *)

Bufs(out) == [i \in DOMAIN out |-> out[i].buf]

IsPrefix(p, q) == Len(p) <= Len(q) /\ SubSeq(q, 1, Len(p)) = p

WritingPcs == {"lock", "write", "flush", "unlock", "ack"}

\* C1: once switchOrigin has set isSwitched and suspended the pump, nothing
\* read from the old origin is written to the client any more: no reply of
\* the old origin that the writer takes from the reader after that point
\* reaches the client.
C1_NoOldReplyAfterSwitchBegins ==
    \A i \in DOMAIN clientOut : clientOut[i].sw => clientOut[i].src # "o1"

\* C2: the buffers written to the client are the buffers the reader handed
\* over, in order, each once; while the client socket works none but the
\* one in flight is missing, and not even that one whenever the reader is
\* reading or working on an origin line; the reader waits in <-send, holding
\* the buffer being written, from the hand-off to the ack; the pump holds the
\* mutex exactly from Lock to Unlock.
C2_InOrderOnceUnderMutex ==
    /\ IsPrefix(Bufs(clientOut), handed)
    /\ clientErr = "nil" => Len(handed) <= Len(clientOut) + 1
    /\ (clientErr = "nil" /\ rpc \in {"top", "proc", "multi", "check"})
          => Bufs(clientOut) = handed
    /\ pumpPc \in WritingPcs => (rpc = "waitsend" /\ b = buff)
    /\ (mutex = "pump") <=> (pumpPc \in {"write", "flush", "unlock"})

\* C2 witness: two different buffers went through, in order, with
\* passThrough true, and the reader is about to read again
C2_Witness ==
    /\ Len(clientOut) = 2
    /\ clientOut[1].buf # clientOut[2].buf
    /\ Bufs(clientOut) = handed
    /\ passThrough
    /\ rpc = "top"

\* C3: every command line on its way to the origin starts with a letter and
\* holds exactly one CR and one LF, as its last two bytes.
C3_OriginCommandsWellFormed ==
    originWrites.by # "none" =>
        /\ IsAlpha(Head(originWrites.line))
        /\ WellEnded(originWrites.line)

\* C4, as claimed: isSwitched never goes back to false, at most one call
\* sends the stop signal and dials, and every call made once isSwitched is
\* true returns "origin already switched".
C4_EveryLaterCallAlreadySwitched ==
    /\ [][isSwitched => isSwitched']_vars
    /\ [](stopsSent <= 1 /\ dials <= 1)
    /\ [][(isSwitched /\ cpc = "idle" /\ cpc' = "returned")
             => ret' = "origin already switched"]_vars

\* C4, amended: isSwitched never goes back to false, at most one call sends
\* the stop signal and dials, and every call made once isSwitched is true is
\* refused and changes nothing: with "origin already switched" when its
\* origin address is not empty, with "user id not found" when it is.
C4_SwitchedAtMostOnce ==
    /\ [][isSwitched => isSwitched']_vars
    /\ [](stopsSent <= 1 /\ dials <= 1)
    /\ [][(isSwitched /\ cpc = "idle" /\ cpc' = "returned")
             => /\ ret' = IF sw'.addr = "" THEN "user id not found"
                          ELSE "origin already switched"
                /\ UNCHANGED <<flagVars, connVars, pumpVars, readerVars,
                               clientVars, ghostVars>>]_vars

\* C4 witness: after the one switch, a later call for another origin was
\* refused
C4_Witness ==
    /\ isSwitched
    /\ stopsSent = 1
    /\ dials = 1
    /\ cpc = "returned"
    /\ sw.addr # ""
    /\ ret = "origin already switched"

InUse == {h \in 1..Len(handlers) : handlers[h].inUse}

\* C5: at most one data handler is in use at any instant: with a previous
\* handler present, SetDataHandler does not go on while that one is in use,
\* closes it, and only then installs the new handler and marks it in use.
C5_OneHandlerInUse ==
    /\ Cardinality(InUse) <= 1
    /\ InUse \subseteq {dataConnector}
    /\ cpc \in {"sdh_wait", "sdh_close"}
          => (dataConnector \notin {0, Handler} /\ ~handlers[Handler].inUse)
    /\ cpc = "sdh_close" => ~handlers[dataConnector].inUse
    /\ (cpc = "sdh_install" /\ dataConnector # 0)
          => (handlers[dataConnector].closed /\ ~handlers[dataConnector].inUse
              /\ ~handlers[Handler].inUse)
    /\ \A h \in 1..Len(handlers) :
          (dataConnector # 0 /\ h < dataConnector) => handlers[h].closed

\* C5 witness: the second handler is installed and in use, the first one
\* was used for a transfer, is closed and is not in use
C5_Witness ==
    /\ Len(handlers) = 2
    /\ dataConnector = 2
    /\ handlers[2].inUse
    /\ handlers[1].started
    /\ handlers[1].closed
    /\ ~handlers[1].inUse

RECURSIVE Concat(_)
Concat(ls) == IF ls = <<>> THEN <<>> ELSE Head(ls) \o Concat(Tail(ls))

Digits == {"0", "1", "2", "3", "4", "5", "6", "7", "8", "9"}

\* a first line "NNN-"
OpensBlock(line) ==
    /\ Len(line) >= 4
    /\ \A i \in 1..3 : line[i] \in Digits
    /\ line[4] = "-"

\* a line that begins with the three digits of opener and a space
EndsBlock(line, opener) ==
    Len(line) >= 4 /\ SubSeq(line, 1, 3) = SubSeq(opener, 1, 3) /\ line[4] = " "

\* C6: a reply whose first line is "NNN-" goes to the writer as one buffer:
\* the lines from the opener up to and including the first later line that
\* begins with the same three digits and a space, concatenated.
C6_MultiLineAsOneBuffer ==
    (rpc \in {"handoff", "waitsend"} /\ OpensBlock(raw[1])) =>
        /\ buff = Concat(raw)
        /\ Len(raw) >= 2
        /\ EndsBlock(raw[Len(raw)], raw[1])
        /\ \A i \in 2..(Len(raw) - 1) : ~EndsBlock(raw[i], raw[1])

\* C7: the welcome message replaces only the first reply of a connection
\* that is not switched; no later line and no line read from the origin of
\* a switched connection is replaced.
\* (A reply is the first one when nothing was handed to the writer before it;
\* a dropped "500 PROXY" line does not count.)
C7_OnlyFirstReplyReplaced ==
    (rpc = "check" /\ buff = welcomeMsg)
        => (handed = <<>> /\ from = "o1" /\ getCode(raw[1]) = C220)

\* C8: with the proxy protocol on, a reply line that contains "500 PROXY" is
\* dropped: it never gets past the test, the reader goes back to read the
\* next line, and neither the pump nor what the client got changes; with the
\* proxy protocol off the same line goes on to the passThrough test
\* unchanged, like any other reply.
C8_Proxy500Dropped ==
    /\ []((config.ProxyProtocol /\ rpc \in {"multi", "check", "handoff", "waitsend"})
             => ~Contains(raw[1], Proxy500))
    /\ []((config.ProxyProtocol /\ pumpPc \in WritingPcs)
             => ~HasPrefix(b, Proxy500))
    /\ [][(rpc = "proc" /\ rpc' # "proc" /\ Contains(raw[1], Proxy500))
             => IF config.ProxyProtocol
                THEN /\ rpc' = "top"
                     /\ UNCHANGED <<pumpVars, clientVars, handed, connVars>>
                ELSE /\ rpc' = "check"
                     /\ buff' = raw[1]]_vars

\* C8 witness: the first line was "500 PROXY" and was dropped, the second
\* was a 220 and the client got the welcome message for it
C8_Witness ==
    /\ config.ProxyProtocol
    /\ ~isSwitched
    /\ nRead = 2
    /\ raw = <<L220>>
    /\ pumpPc = "ack"
    /\ handed = <<welcomeMsg>>
    /\ Bufs(clientOut) = <<welcomeMsg>>

\* C9: while passThrough is false the reply pump writes nothing to the
\* client.
C9_NothingWrittenWhileSuspended ==
    \A i \in DOMAIN clientOut : clientOut[i].pt

\* C10: Send never blocks; it accepts the event and returns nil exactly when
\* the buffer has room or a receiver is waiting, otherwise it returns
\* "no receivers" and leaves the channel as it was; the accepted events are
\* received with their name and payload, in the order they were sent, and
\* each of them is received in the end.
C10_SendNeverBlocks ==
    /\ [](Len(sent) < MaxSends => ENABLED Send)
    /\ [](Len(eventC) <= eventCap /\ received \o eventC = sent)
    /\ [][sent' # sent
             => /\ Len(eventC) < eventCap \/ receiver = "waiting"
                /\ sendLog' = "nil"
                /\ \E e \in Events :
                     /\ sent' = Append(sent, e)
                     /\ received' \o eventC' = Append(received \o eventC, e)]_vars
    /\ [][(sendLog' = "no receivers" /\ sendLog # "no receivers")
             => /\ ~(Len(eventC) < eventCap \/ receiver = "waiting")
                /\ UNCHANGED <<eventC, received, sent>>]_vars
    /\ \A k \in 1..MaxSends : (Len(sent) >= k) ~> (Len(received) >= k)

\* C10 witness: a full buffer made Send return "no receivers", and the
\* events accepted before it arrive in order
C10_Witness ==
    /\ eventCap = 2
    /\ sendLog = "no receivers"
    /\ Len(sent) = 2
    /\ sent[1] # sent[2]
    /\ received = <<sent[1]>>
    /\ eventC = <<sent[2]>>

\* C11: a switchOrigin call with an empty origin address, which is what the
\* USER middleware leaves when it cannot resolve the user, returns
\* "user id not found" and changes nothing: isSwitched, passThrough and stop
\* keep their values, no stop signal is sent, the pump and its reader stay
\* where they are and the bound origin stays bound and open; a call on a
\* switched proxy returns an error and changes nothing either.
C11_RefusedCallChangesNothing ==
    /\ \A r \in Resolutions : r.err => User(r) = ""
    /\ [][(cpc = "idle" /\ cpc' \in {"returned", "sw_suspend"}
              /\ (sw'.addr = "" \/ isSwitched))
             => /\ cpc' = "returned"
                /\ sw'.addr = "" => ret' = "user id not found"
                /\ ret' \in {"user id not found", "origin already switched"}
                /\ UNCHANGED <<flagVars, connVars, dataVars, mutex, pumpVars,
                               readerVars, clientVars, ghostVars>>]_vars

\* C11 witness: the call with no origin address was refused while the pump
\* runs on the default origin
C11_Witness ==
    /\ cpc = "returned"
    /\ sw.addr = ""
    /\ ret = "user id not found"
    /\ ~isSwitched
    /\ passThrough
    /\ stopsSent = 0
    /\ pumpPc = "select"
    /\ origin = "o1"
    /\ connOpen["o1"]

SwitchPcs == {"sw_suspend", "sw_stop", "sw_stopdone", "sw_dial", "sw_header",
              "sw_welcome", "sw_tls", "sw_tlsread", "sw_defer", "sw_publish",
              "sw_unsuspend"}

AfterHandshake == SwitchPcs \ {"sw_suspend", "sw_stop", "sw_stopdone"}

\* C12: the order of a switch is suspend, stop signal, stop = true, old
\* origin closed, stop acknowledged, new origin dialed: when the stop signal
\* is sent the pump is suspended, when the stop is acknowledged stop is true
\* and the old origin is closed, nothing is dialed before the acknowledgement,
\* and the old origin is never open while the new one is bound.
C12_OldClosedBeforeDial ==
    /\ cpc \in {"sw_stop", "sw_stopdone"} => (~passThrough /\ dials = 0)
    /\ cpc = "sw_stop" => stopsSent = 0
    /\ cpc = "sw_stopdone" => (stop /\ stopsSent = 1 /\ origin = "o1")
    /\ pumpPc = "stopack" => (stop /\ ~connOpen["o1"])
    /\ cpc = "sw_dial" => (stop /\ ~passThrough /\ ~connOpen["o1"] /\ dials = 0
                            /\ origin = "o1")
    /\ dials > 0 => (stopsSent = 1 /\ ~connOpen["o1"])
    /\ ~(connOpen["o1"] /\ (origin = "o2" \/ connOpen["o2"]))

\* C12 witness: the new origin is bound and open, the old one is closed
C12_Witness ==
    /\ cpc = "sw_header"
    /\ origin = "o2"
    /\ connOpen["o2"]
    /\ ~connOpen["o1"]
    /\ stop
    /\ ~passThrough
    /\ stopsSent = 1
    /\ dials = 1

\* C13: when the line read from the new origin is not a 2xx reply, the
\* switch fails: no TLS command is replayed and the result is false.
C13_WelcomeMustBe2xx ==
    (cpc \in SwitchPcs /\ sw.res # <<>> /\ Head(sw.res) # "2")
        => /\ cpc \notin {"sw_tls", "sw_tlsread"}
           /\ ~sw.switchResult
           /\ originWrites.by = "none"

Refusals == {"user id not found", "origin already switched"}

\* C14: a switch attempt that got through the refusals and the stop
\* handshake publishes one value on waitSwitching and no more, after stop was
\* reset to false; the value is true exactly when switchOrigin returns nil,
\* that is when the dial, the PROXY header, the welcome read and the TLS
\* replay all went through, and after a false value the old origin is still
\* closed: nothing is rolled back.
C14_OneResultPublished ==
    /\ [](/\ Len(published) <= stopsSent
          /\ cpc \in (AfterHandshake \ {"sw_unsuspend"}) => published = <<>>
          /\ cpc = "sw_unsuspend" => Len(published) = 1
          /\ (cpc = "returned" /\ ret \notin Refusals) => Len(published) = 1)
    /\ [][published' # published
             => /\ cpc = "sw_publish"
                /\ ~stop
                /\ published' = Append(published, ret = "nil")
                /\ ret # "nil" => (~connOpen'["o1"] /\ origin' # "o1")
                /\ UNCHANGED <<flagVars, connVars>>]_vars

\* C14 witness: a switch whose TLS replay failed has published false
C14_Witness ==
    /\ cpc = "sw_unsuspend"
    /\ published = <<FALSE>>
    /\ ret = "origin server has not support TLS connection"
    /\ ~stop
    /\ origin = "o2"

ReplayEnded == {"sw_defer", "sw_publish", "sw_unsuspend"}

\* C15: the replay writes the recorded commands in the recorded order, the
\* origin connection is upgraded to TLS only on a 234 reply to AUTH, a
\* failed replay makes the switch fail, and the call ends with the no-TLS
\* error exactly when a replayed AUTH got a terminal reply other than 234.
C15_NoTlsIffAuthRefused ==
    /\ [](originWrites.by = "sendTLSCommand"
            => /\ cpc = "sw_tlsread"
               /\ originWrites.line = sw.cmds[sw.idx])
    /\ [][originTLS' # originTLS
             => /\ cpc = "sw_tlsread"
                /\ IsAuth(sw.cmds[sw.idx])
                /\ originPending # <<>>
                /\ getCode(Head(originPending)) = <<"2", "3", "4">>]_vars
    /\ []((cpc \in ReplayEnded /\ ret # "nil") => ~sw.switchResult)
    /\ [](cpc \in ReplayEnded => (ret = NoTls <=> sw.lastError = NoTls))

\* C16: when the replay goes on from one command to the next, and when it
\* has read the reply to the last one, no line of a reply to a replayed
\* command is left unread on the connection to the new origin.
C16_ReplayReadsWholeReply ==
    cpc = "sw_tls" => originPending = <<>>

HasAlpha(line) == \E i \in DOMAIN line : IsAlpha(line[i])

FromFirstAlpha(line) ==
    LET first == CHOOSE i \in DOMAIN line :
                    IsAlpha(line[i]) /\ \A j \in 1..(i - 1) : ~IsAlpha(line[j])
    IN  [k \in 1..(Len(line) - first + 1) |-> line[first + k - 1]]

EndsWithItsOnlyCRLF(l) ==
    /\ Len(l) >= 2
    /\ l[Len(l) - 1] = CR
    /\ l[Len(l)] = LF
    /\ \A i \in 1..(Len(l) - 2) : l[i] \notin {CR, LF}

NotCRLF(c) == c \notin {CR, LF}

Normalised(line) ==
    LET l == FromFirstAlpha(line) IN
    IF EndsWithItsOnlyCRLF(l) THEN l ELSE SelectSeq(l, NotCRLF) \o <<CR, LF>>

BadLine == "aborted : wrong command line"

\* C17: sendToOrigin fails with the bad-command-line error exactly when its
\* line has no letter, and then writes nothing to the origin; otherwise what
\* it writes is the line from its first letter on, as it is when that ends
\* with its only CR and only LF, and else with every CR and LF removed and
\* CRLF appended; commandLineCheck gives its own result back unchanged.
C17_CommandLineNormalised ==
    [][(cpc = "idle" /\ cpc' = "returned" /\ cmdLine' # <<>>)
         => LET line == cmdLine'[1] IN
            /\ ret' = BadLine <=> ~HasAlpha(line)
            /\ ~HasAlpha(line)
                  => /\ commandLineCheck(line).err = BadLine
                     /\ UNCHANGED originWrites
            /\ HasAlpha(line)
                  => /\ commandLineCheck(line)
                           = [err |-> "nil", line |-> Normalised(line)]
                     /\ commandLineCheck(Normalised(line))
                           = [err |-> "nil", line |-> Normalised(line)]
                     /\ ret' \in {"nil", "write error"}
                     /\ ret' = "nil"
                           => originWrites' = [by |-> "sendToOrigin",
                                               line |-> Normalised(line)]
                     /\ ret' # "nil" => UNCHANGED originWrites]_vars

\* C17 witness: "#A\n" has been written to the origin as "A\r\n"
C17_Witness ==
    /\ cpc = "returned"
    /\ cmdLine = << <<"#", "A", LF>> >>
    /\ ret = "nil"
    /\ originWrites = [by |-> "sendToOrigin", line |-> <<"A", CR, LF>>]

\* C18: when a client write or flush fails with 'use of closed' the pump
\* goes on as it was; after any other client write or flush error no origin
\* reply is read or handed to the writer any more.
C18_WriteErrorEndsPump ==
    /\ [][(clientErr = "nil" /\ clientErr' = "use of closed")
             => /\ pumpPc' = "unlock"
                /\ UNCHANGED <<lastError, stop, connVars>>]_vars
    /\ [][clientErr \notin {"nil", "use of closed"}
             => UNCHANGED <<nRead, handed>>]_vars

\* C19: the pump ends in one of two ways.  After an origin read failed with
\* stop false, start closes the connection and returns the read error.
\* After a stop signal, start has set stop, closed the connection and sent
\* its acknowledgement, and it returns nil: the read error that the close
\* causes is not reported.  Either way start closes the current data
\* handler, if there is one, as it returns.
C19_TwoTerminationPaths ==
    /\ [](pumpPc = "over"
            => /\ lastError = "read error"
               /\ ~stop
               /\ stopsSent = 0
               /\ ~connOpen[from])
    /\ [](pumpPc = "waitsw"
            => /\ lastError = "nil"
               /\ stop
               /\ stopsSent = 1
               /\ cpc \notin {"sw_stop", "sw_stopdone"}
               /\ ~connOpen[from])
    /\ [][lastError' # lastError
             => /\ pumpPc = "select"
                /\ ~stop
                /\ rpc \in {"errsend", "errsendm"}
                /\ lastError' = "read error"]_vars
    /\ [][(rpc = "readerr" /\ stop) => rpc' \notin {"errsend", "errsendm"}]_vars
    /\ [][(pumpPc = "closedata" /\ pumpPc' # "closedata")
             => /\ pumpPc' = IF lastError = "nil" THEN "waitsw" ELSE "over"
                /\ dataConnector' = dataConnector
                /\ dataConnector # 0 => handlers'[dataConnector].closed]_vars

\* C19 witness: start has returned nil after a stop signal, with the data
\* handler it found closed
C19_Witness ==
    /\ pumpPc = "waitsw"
    /\ stop
    /\ lastError = "nil"
    /\ ~connOpen["o1"]
    /\ dataConnector # 0
    /\ handlers[dataConnector].closed

\* C20: outside a switch in progress passThrough is true, in particular when
\* switchOrigin has returned, whatever path it took; during the switch it is
\* false from the suspend on and the unsuspend is pending.
C20_SuspendPaired ==
    /\ cpc \notin SwitchPcs => passThrough
    /\ cpc \in (SwitchPcs \ {"sw_suspend"}) => (~passThrough /\ sw.unsuspend)

\* C20 witness: switchOrigin has returned from a failed dial and the pump is
\* unsuspended
C20_Witness ==
    /\ cpc = "returned"
    /\ ret = "dial error"
    /\ isSwitched
    /\ passThrough
    /\ published = <<FALSE>>

\* the reader goroutine can take a step, or start can take its <-done
ReaderOrDoneEnabled ==
    ENABLED (ReaderRead \/ ReaderReadErr \/ ReaderProc \/ ReaderMulti
                \/ ReaderCheck \/ PumpWaitDone)

\* C21: the stop handshake never deadlocks: once the select loop has taken
\* the stop signal, the stop is acknowledged with the reader still able to
\* run to its done signal, so that start can return.  A reader inside
\* safeSetChanel is left apart.
C21_StopHandshakeNeverDeadlocks ==
    (stop /\ pumpPc \in {"stopclose", "stopack", "waitdone"}
          /\ rpc \notin {"errsend", "errsendm"})
        => (rpc = "done" \/ ReaderOrDoneEnabled)

\* C22: at the step in which the caller receives the switch result, stop is
\* false and passThrough is true, so that a start called after a true
\* result gets past its guard and runs the pump.
C22_ReadyWhenResultReceived ==
    /\ [][published' # published => (~stop' /\ passThrough')]_vars
    /\ [][(pumpPc = "call" /\ pumpPc' # "call" /\ published = <<TRUE>>)
             => pumpPc' = "select"]_vars

====
